---- MODULE Spec2Model ----
(***************************************************************************)
(* A model of scripts/dataset_generators/gen_imagenette.py: the script     *)
(* that lays the imagenette dataset out as root/{train,test}/{label}/ and  *)
(* writes the two JSON spec documents beside it.                           *)
(*                                                                         *)
(* A path is the sequence of its components; an absolute path starts with  *)
(* the component "/".  A file name is a sequence of tokens (one token per  *)
(* digit of the counter, then the suffix), so that the formatting of the   *)
(* counter is computed, not assumed.                                       *)
(***************************************************************************)
EXTENDS Integers, Sequences, FiniteSets, TLC

VARIABLES
    pc,          \* the statement the process is at
    err,         \* the exception that halted the process, "none" otherwise
    dirs,        \* disk: the set of directories that exist
    files,       \* disk: <<directory, file name>> -> content
    clock,       \* wall clock read by datetime.datetime.now()
    train_spec,  \* <<>> until line 65..73 has bound it, then <<document>>
    test_spec,   \* <<>> until line 76..84 has bound it, then <<document>>
    dataset,     \* what tfds serves: <<>> until first loaded, then <<[train, test]>>
    train_set,   \* the examples the train iterator has still to yield
    test_set,    \* the examples the test iterator has still to yield
    cnt,         \* line 93: the file name counter
    run,         \* history: 1 in the first run of the script, 2 in a rerun
    written,     \* history: one record per img.save that returned
    pre_dirs,    \* history: the directories that existed when the process started
    first_halt,  \* history: the statement the first run halted at, "none" otherwise
    first_files  \* history: the files the first run left on its disk

vars == <<pc, err, dirs, files, clock, train_spec, test_spec, dataset,
          train_set, test_set, cnt, run, written, pre_dirs, first_halt,
          first_files>>

\* The process's own memory; the disk, the clock and tfds outlive a process.
local == <<train_spec, test_spec, train_set, test_set, cnt>>
disk == <<dirs, files>>
history == <<run, written, pre_dirs, first_halt, first_files>>

-----------------------------------------------------------------------------
(* Bounds of the model *)

\* The longest train split and the longest test split tfds serves.
MaxTrain == 3
MaxTest == 2
\* The same, where the script is run twice.
RerunMaxTrain == 2
RerunMaxTest == 1
\* How many target directories (with their parents) may exist beforehand.
MaxPreDirs == 2

\* The labels of the examples tfds serves in each split, samples of 0..9.
TrainLabelSample == {0, 1, 9}
TestLabelSample == {0, 2, 9}
\* The pixel array of an example of each sampled label.
PixelsOf(l) == IF l \in {0, 2} THEN "pixelsA" ELSE IF l = 1 THEN "pixelsB" ELSE "pixelsC"
ExamplesOf(labels) == {[label |-> l, image |-> PixelsOf(l)] : l \in labels}

RECURSIVE SeqsUpTo(_, _)
SeqsUpTo(S, n) ==
    IF n = 0 THEN {<<>>}
    ELSE LET shorter == SeqsUpTo(S, n - 1)
         IN  shorter \cup {Append(s, x) : s \in {t \in shorter : Len(t) = n - 1}, x \in S}

Datasets(maxTrain, maxTest) ==
    {[train |-> tr, test |-> te] :
          tr \in SeqsUpTo(ExamplesOf(TrainLabelSample), maxTrain),
          te \in SeqsUpTo(ExamplesOf(TestLabelSample), maxTest)}

-----------------------------------------------------------------------------
(* Paths: lines 47..54 *)

\* os.path.join of two paths: an absolute second path discards the first.
join(a, b) == IF b # <<>> /\ b[1] = "/" THEN b ELSE a \o b

DEST_ROOT == <<"/", "home", "churilla", "nfs", "datasets">>
DIR_NAME == <<"imagenette">>
DIR_ROOT == join(DEST_ROOT, DIR_NAME)
TRAIN_ROOT == join(DIR_ROOT, <<"train">>)
TEST_ROOT == join(DIR_ROOT, <<"test">>)
IMAGENETTE_LABELS ==
    <<"tench", "English_springer", "cassette_player", "chain_saw", "church",
      "French_horn", "garbage_truck", "gas_pump", "golf_ball", "parachute">>

\* IMAGENETTE_LABELS[label]: Python indexes from 0.
LabelIndexOK(label) == label + 1 \in DOMAIN IMAGENETTE_LABELS
LabelName(label) == IMAGENETTE_LABELS[label + 1]

-----------------------------------------------------------------------------
(* The directory-tree builder: lines 56..61 *)

Prefixes(p) == {SubSeq(p, 1, k) : k \in 1..Len(p)}

\* Variant: exist_ok is not honoured.
makedirs_strict(ds, p, exist_ok) ==
    IF p \in ds
    THEN [dirs |-> ds, err |-> "FileExistsError"]
    ELSE [dirs |-> ds \cup Prefixes(p), err |-> "none"]

\* os.makedirs(p, exist_ok=...): the missing parents, then the leaf; an existing
\* leaf raises FileExistsError unless exist_ok.
makedirs(ds, p, exist_ok) ==
    IF p \in ds /\ ~exist_ok
    THEN [dirs |-> ds, err |-> "FileExistsError"]
    ELSE [dirs |-> ds \cup Prefixes(p), err |-> "none"]

SplitRoots == <<TRAIN_ROOT, TEST_ROOT>>
NLabels == Len(IMAGENETTE_LABELS)

\* The os.makedirs calls of lines 56..61, in the order the script makes them.
MkdirCalls ==
    <<DEST_ROOT, join(DEST_ROOT, TRAIN_ROOT), join(DEST_ROOT, TEST_ROOT)>>
    \o [k \in 1..(2 * NLabels) |->
          join(join(DEST_ROOT, SplitRoots[((k - 1) \div NLabels) + 1]),
               <<IMAGENETTE_LABELS[((k - 1) % NLabels) + 1]>>)]

\* The first n calls, stopping at the first that raises.
RECURSIVE RunMkdirs(_, _)
RunMkdirs(ds, n) ==
    IF n = 0 THEN [dirs |-> ds, err |-> "none"]
    ELSE LET before == RunMkdirs(ds, n - 1)
         IN  IF before.err # "none" THEN before
             ELSE makedirs(before.dirs, MkdirCalls[n], TRUE)

\* Every directory the calls create when none exists.
TargetDirs == UNION {Prefixes(MkdirCalls[n]) : n \in DOMAIN MkdirCalls}

-----------------------------------------------------------------------------
(* The spec documents: lines 64..89 *)

train_spec_filename == <<"imagenette_nXn_rgb_train_van.json">>
test_spec_filename == <<"imagenette_nXn_rgb_test_van.json">>

\* Variant: the labels are numbered from 1.
DataEntryFrom1(split, pos) ==
    [label |-> pos,
     labelName |-> IMAGENETTE_LABELS[pos],
     directory |-> join(join(DIR_NAME, <<split>>), <<IMAGENETTE_LABELS[pos]>>)]

\* enumerate(IMAGENETTE_LABELS) as used by lines 72 and 83: the entry of the
\* label at Python index pos - 1.
DataEntry(split, pos) ==
    [label |-> pos - 1,
     labelName |-> IMAGENETTE_LABELS[pos],
     directory |-> join(join(DIR_NAME, <<split>>), <<IMAGENETTE_LABELS[pos]>>)]

\* The document lines 65..73 (split "train") and 76..84 (split "test") build.
SpecDocument(split, now) ==
    [numModelClasses |-> 10,
     imageProperties |-> [dimensions |-> "224,224", colorspace |-> "rgb"],
     sampling |-> [algorithm |-> "none", arguments |-> <<>>],
     description |-> IF split = "train" THEN "imagenette train images, NxN, rgb"
                     ELSE "imagenette test images, NxN, rgb",
     timestamp |-> now,
     formatVersion |-> "2.0.0",
     data |-> [pos \in DOMAIN IMAGENETTE_LABELS |-> DataEntry(split, pos)]]

\* What a file holds: a JSON document, an encoded image, or nothing yet (a file
\* opened for writing whose write did not happen).
JsonFile(doc) == [kind |-> "json", body |-> <<doc>>]
EmptyFile == [kind |-> "empty", body |-> <<>>]

\* Variant: the encoder stamps the file with the time of writing.
PngFileStamped(pixels) == [kind |-> "png", body |-> <<pixels, clock>>]

\* Image.fromarray(pixels) saved as PNG: the content is a function of the pixels.
PngFile(pixels) == [kind |-> "png", body |-> <<pixels>>]

\* open(path, "w") and img.save(path) create or replace the file; the directory
\* has to exist.
CanWrite(dir) == dir \in dirs
Put(fs, dir, name, content) ==
    [k \in (DOMAIN fs) \cup {<<dir, name>>} |->
        IF k = <<dir, name>> THEN content ELSE fs[k]]

TrainSpecPath == <<join(DEST_ROOT, DIR_ROOT), train_spec_filename>>
TestSpecPath == <<join(DEST_ROOT, DIR_ROOT), test_spec_filename>>

-----------------------------------------------------------------------------
(* The file name of an image: lines 95 and 100, f"{cnt:0>6d}.png" *)

NameWidth == 6
Digit == <<"0", "1", "2", "3", "4", "5", "6", "7", "8", "9">>

\* format(cnt, "d"): the decimal digits, most significant first.
RECURSIVE Decimal(_)
Decimal(n) == IF n < 10 THEN <<Digit[n + 1]>>
              ELSE Append(Decimal(n \div 10), Digit[(n % 10) + 1])

\* "0>6": filled with "0" on the left up to the width, never cut.
RECURSIVE PadLeft(_, _)
PadLeft(s, w) == IF Len(s) >= w THEN s ELSE PadLeft(<<"0">> \o s, w)

\* Variant: no fill.
FileNameUnpadded(c) == Append(Decimal(c), ".png")

FileName(c) == Append(PadLeft(Decimal(c), NameWidth), ".png")

\* Variant: lab, which line 60 left bound to the last label, instead of the
\* example's label.
TrainSaveDirStaleLab(label) == join(join(DEST_ROOT, TRAIN_ROOT), <<IMAGENETTE_LABELS[NLabels]>>)
\* The directory an image of the split is saved in: lines 97 and 102.
TrainSaveDir(label) == join(join(DEST_ROOT, TRAIN_ROOT), <<LabelName(label)>>)

\* Variant: the test loop saves under TRAIN_ROOT.
TestSaveDirAsTrain(label) == join(join(DEST_ROOT, TRAIN_ROOT), <<LabelName(label)>>)

TestSaveDir(label) == join(join(DEST_ROOT, TEST_ROOT), <<LabelName(label)>>)

-----------------------------------------------------------------------------
(* The state after the interpreter has started the script *)

NoFiles == [k \in {} |-> EmptyFile]
RootOnly == {<<"/">>}

\* A fresh process: nothing bound yet.
FreshProcess ==
    /\ pc = "not_started"
    /\ err = "none"
    /\ train_spec = <<>>
    /\ test_spec = <<>>
    /\ train_set = <<>>
    /\ test_set = <<>>
    /\ cnt = 0

FirstRun ==
    /\ clock = 0
    /\ dataset = <<>>
    /\ run = 1
    /\ written = <<>>
    /\ first_halt = "none"
    /\ first_files = NoFiles

\* A destination with no prior data.
Init ==
    /\ FreshProcess
    /\ FirstRun
    /\ dirs = RootOnly
    /\ pre_dirs = dirs
    /\ files = NoFiles

\* Variant: an exception is swallowed and the script goes on.
RunningSwallowsErrors(at) == pc = at

\* An exception is caught nowhere: a process that raised executes nothing more.
Running(at) == pc = at /\ err = "none"
Halt(e) == err' = e /\ pc' = pc

-----------------------------------------------------------------------------
(* Lines 34..54: imports and constants *)

Begin ==
    /\ Running("not_started")
    /\ pc' = "makedirs"
    /\ UNCHANGED <<err, disk, clock, local, dataset, history>>

BeginFail ==
    /\ Running("not_started")
    /\ Halt("ImportError")
    /\ UNCHANGED <<disk, clock, local, dataset, history>>

(* Lines 56..61: the directory-tree builder *)

MakeDirs ==
    /\ Running("makedirs")
    /\ LET r == RunMkdirs(dirs, Len(MkdirCalls))
       IN  /\ dirs' = r.dirs
           /\ IF r.err = "none"
              THEN pc' = "build_specs" /\ err' = err
              ELSE Halt(r.err)
    /\ UNCHANGED <<files, clock, local, dataset, history>>

\* The n-th call raises for a reason of the environment (permissions, a full
\* disk): the directories of the calls before it stay.
MakeDirsFail ==
    /\ Running("makedirs")
    /\ \E n \in DOMAIN MkdirCalls :
          LET r == RunMkdirs(dirs, n - 1)
          IN  /\ r.err = "none"
              /\ dirs' = r.dirs
    /\ Halt("OSError")
    /\ UNCHANGED <<files, clock, local, dataset, history>>

(* Lines 64..84: the two documents, each with its own datetime.now() *)

BuildSpecs ==
    /\ Running("build_specs")
    /\ \E later \in {clock, clock + 1} :
          /\ train_spec' = <<SpecDocument("train", clock)>>
          /\ test_spec' = <<SpecDocument("test", later)>>
          /\ clock' = later
    /\ pc' = "write_train_spec"
    /\ UNCHANGED <<err, disk, train_set, test_set, cnt, dataset, history>>

(* Lines 86..89: open(..., "w") and json.dump *)

WriteTrainSpec ==
    /\ Running("write_train_spec")
    /\ IF CanWrite(TrainSpecPath[1])
       THEN /\ files' = Put(files, TrainSpecPath[1], TrainSpecPath[2], JsonFile(train_spec[1]))
            /\ pc' = "write_test_spec"
            /\ err' = err
       ELSE /\ Halt("FileNotFoundError")
            /\ files' = files
    /\ UNCHANGED <<dirs, clock, local, dataset, history>>

\* open raises (nothing changes), or open has truncated the file and the write
\* raises.
WriteTrainSpecFail ==
    /\ Running("write_train_spec")
    /\ \E opened \in {FALSE, TRUE} :
          IF opened /\ CanWrite(TrainSpecPath[1])
          THEN files' = Put(files, TrainSpecPath[1], TrainSpecPath[2], EmptyFile)
          ELSE files' = files
    /\ Halt("OSError")
    /\ UNCHANGED <<dirs, clock, local, dataset, history>>

WriteTestSpec ==
    /\ Running("write_test_spec")
    /\ IF CanWrite(TestSpecPath[1])
       THEN /\ files' = Put(files, TestSpecPath[1], TestSpecPath[2], JsonFile(test_spec[1]))
            /\ pc' = "load"
            /\ err' = err
       ELSE /\ Halt("FileNotFoundError")
            /\ files' = files
    /\ UNCHANGED <<dirs, clock, local, dataset, history>>

WriteTestSpecFail ==
    /\ Running("write_test_spec")
    /\ \E opened \in {FALSE, TRUE} :
          IF opened /\ CanWrite(TestSpecPath[1])
          THEN files' = Put(files, TestSpecPath[1], TestSpecPath[2], EmptyFile)
          ELSE files' = files
    /\ Halt("OSError")
    /\ UNCHANGED <<dirs, clock, local, dataset, history>>

(* Lines 91..93: tfds.load of both splits (shuffle_files=False), cnt = 0 *)

PngKeys(fs) == {k \in DOMAIN fs : fs[k].kind = "png"}

\* tfds serves the same examples in the same order every time it is asked.
Served(maxTrain, maxTest) ==
    IF dataset = <<>> THEN Datasets(maxTrain, maxTest) ELSE {dataset[1]}

\* Variant: the counter resumes after the images found on the disk.
LoadDatasetsResuming(maxTrain, maxTest) ==
    /\ Running("load")
    /\ \E d \in Served(maxTrain, maxTest) :
          /\ dataset' = <<d>>
          /\ train_set' = d.train
          /\ test_set' = d.test
    /\ cnt' = Cardinality(PngKeys(files))
    /\ pc' = "train_loop"
    /\ UNCHANGED <<err, disk, clock, train_spec, test_spec, history>>

LoadDatasets(maxTrain, maxTest) ==
    /\ Running("load")
    /\ \E d \in Served(maxTrain, maxTest) :
          /\ dataset' = <<d>>
          /\ train_set' = d.train
          /\ test_set' = d.test
    /\ cnt' = 0
    /\ pc' = "train_loop"
    /\ UNCHANGED <<err, disk, clock, train_spec, test_spec, history>>

LoadFail ==
    /\ Running("load")
    /\ Halt("DatasetError")
    /\ UNCHANGED <<disk, clock, local, dataset, history>>

(* Lines 94..98: the train loop *)

Saved(split, i, dir) ==
    [run |-> run, split |-> split, example |-> i, dir |-> dir,
     name |-> FileName(cnt), cnt |-> cnt]

TrainStep ==
    /\ Running("train_loop")
    /\ train_set # <<>>
    /\ LET i == Head(train_set)
       IN  IF ~LabelIndexOK(i.label)
           THEN Halt("IndexError") /\ UNCHANGED <<files, local, written>>
           ELSE IF ~CanWrite(TrainSaveDir(i.label))
           THEN Halt("FileNotFoundError") /\ UNCHANGED <<files, local, written>>
           ELSE /\ files' = Put(files, TrainSaveDir(i.label), FileName(cnt), PngFile(i.image))
                /\ cnt' = cnt + 1
                /\ train_set' = Tail(train_set)
                /\ written' = Append(written, Saved("train", i, TrainSaveDir(i.label)))
                /\ UNCHANGED <<pc, err, train_spec, test_spec, test_set>>
    /\ UNCHANGED <<dirs, clock, dataset, run, pre_dirs, first_halt, first_files>>

\* Variant: the failure removes the images written so far.
TrainStepFailCleans ==
    /\ Running("train_loop")
    /\ train_set # <<>>
    /\ Halt("ImageError")
    /\ files' = [k \in (DOMAIN files) \ PngKeys(files) |-> files[k]]
    /\ UNCHANGED <<dirs, clock, local, dataset, history>>

\* The iterator, Image.fromarray or img.save raises: nothing of this example
\* reaches the disk, and nothing written before is touched.
TrainStepFail ==
    /\ Running("train_loop")
    /\ train_set # <<>>
    /\ Halt("ImageError")
    /\ UNCHANGED <<disk, clock, local, dataset, history>>

\* Variant: the counter starts again for the test split.
TrainEndResetsCnt ==
    /\ Running("train_loop")
    /\ train_set = <<>>
    /\ pc' = "test_loop"
    /\ cnt' = 0
    /\ UNCHANGED <<err, disk, clock, train_spec, test_spec, train_set, test_set,
                   dataset, history>>

TrainEnd ==
    /\ Running("train_loop")
    /\ train_set = <<>>
    /\ pc' = "test_loop"
    /\ UNCHANGED <<err, disk, clock, local, dataset, history>>

(* Lines 99..103: the test loop *)

TestStep ==
    /\ Running("test_loop")
    /\ test_set # <<>>
    /\ LET i == Head(test_set)
       IN  IF ~LabelIndexOK(i.label)
           THEN Halt("IndexError") /\ UNCHANGED <<files, local, written>>
           ELSE IF ~CanWrite(TestSaveDir(i.label))
           THEN Halt("FileNotFoundError") /\ UNCHANGED <<files, local, written>>
           ELSE /\ files' = Put(files, TestSaveDir(i.label), FileName(cnt), PngFile(i.image))
                /\ cnt' = cnt + 1
                /\ test_set' = Tail(test_set)
                /\ written' = Append(written, Saved("test", i, TestSaveDir(i.label)))
                /\ UNCHANGED <<pc, err, train_spec, test_spec, train_set>>
    /\ UNCHANGED <<dirs, clock, dataset, run, pre_dirs, first_halt, first_files>>

TestStepFail ==
    /\ Running("test_loop")
    /\ test_set # <<>>
    /\ Halt("ImageError")
    /\ UNCHANGED <<disk, clock, local, dataset, history>>

TestEnd ==
    /\ Running("test_loop")
    /\ test_set = <<>>
    /\ pc' = "done"
    /\ UNCHANGED <<err, disk, clock, local, dataset, history>>

-----------------------------------------------------------------------------
(* The script run a second time: a new process, a later clock *)

NewProcess ==
    /\ pc' = "not_started"
    /\ err' = "none"
    /\ train_spec' = <<>>
    /\ test_spec' = <<>>
    /\ train_set' = <<>>
    /\ test_set' = <<>>
    /\ cnt' = 0
    /\ clock' = clock + 1
    /\ run' = 2
    /\ first_halt' = IF err = "none" THEN "none" ELSE pc
    /\ first_files' = files
    /\ pre_dirs' = dirs'
    /\ UNCHANGED <<dataset, written>>

\* After a failed run, against what that run left on the disk.
RerunAfterFailure ==
    /\ run = 1
    /\ err # "none"
    /\ UNCHANGED disk
    /\ NewProcess

\* After a completed run, against another empty destination.
RerunOnEmptyDestination ==
    /\ run = 1
    /\ Running("done")
    /\ dirs' = RootOnly
    /\ files' = NoFiles
    /\ NewProcess

-----------------------------------------------------------------------------
(* Specifications *)

Script(maxTrain, maxTest) ==
    \/ Begin \/ BeginFail
    \/ MakeDirs \/ MakeDirsFail
    \/ BuildSpecs
    \/ WriteTrainSpec \/ WriteTrainSpecFail
    \/ WriteTestSpec \/ WriteTestSpecFail
    \/ LoadDatasets(maxTrain, maxTest) \/ LoadFail
    \/ TrainStep \/ TrainStepFail \/ TrainEnd
    \/ TestStep \/ TestStepFail \/ TestEnd

\* One run of the script against an empty destination.
Next == Script(MaxTrain, MaxTest)
Spec == Init /\ [][Next]_vars

\* A run, then a rerun.
NextRerun ==
    \/ Script(RerunMaxTrain, RerunMaxTest)
    \/ RerunAfterFailure
    \/ RerunOnEmptyDestination
SpecRerun == Init /\ [][NextRerun]_vars

\* The directory-tree builder against a destination where some of the target
\* directories (and so their parents) exist already.
RECURSIVE PreExisting(_)
PreExisting(k) ==
    IF k = 0 THEN {RootOnly}
    ELSE LET fewer == PreExisting(k - 1)
         IN  fewer \cup {ds \cup Prefixes(p) : ds \in fewer, p \in TargetDirs}

InitDirs ==
    /\ FreshProcess
    /\ FirstRun
    /\ dirs \in PreExisting(MaxPreDirs) \cup {TargetDirs}
    /\ pre_dirs = dirs
    /\ files = NoFiles

NextDirs == Begin \/ MakeDirs \/ MakeDirsFail
SpecDirs == InitDirs /\ [][NextDirs]_vars

\* The two loops from the moment the counter holds a given value: the disk is
\* the directories and the spec files, the images saved before that moment are
\* left out of it, and the iterators hold the examples still to come.
WindowStarts == {0, 10^NameWidth - 2}

InitLoops ==
    /\ pc = "train_loop"
    /\ err = "none"
    /\ clock = 0
    /\ train_spec = <<SpecDocument("train", 0)>>
    /\ test_spec = <<SpecDocument("test", 0)>>
    /\ dirs = TargetDirs
    /\ files = Put(Put(NoFiles, TrainSpecPath[1], TrainSpecPath[2], JsonFile(train_spec[1])),
                   TestSpecPath[1], TestSpecPath[2], JsonFile(test_spec[1]))
    /\ \E d \in Datasets(MaxTrain, MaxTest) :
          /\ dataset = <<d>>
          /\ train_set = d.train
          /\ test_set = d.test
    /\ cnt \in WindowStarts
    /\ run = 1
    /\ written = <<>>
    /\ pre_dirs = RootOnly
    /\ first_halt = "none"
    /\ first_files = NoFiles

NextLoops ==
    \/ TrainStep \/ TrainStepFail \/ TrainEnd
    \/ TestStep \/ TestStepFail \/ TestEnd
SpecLoops == InitLoops /\ [][NextLoops]_vars

-----------------------------------------------------------------------------
(* What the claims speak of, written out independently of the operators above *)

LabelNames ==
    <<"tench", "English_springer", "cassette_player", "chain_saw", "church",
      "French_horn", "garbage_truck", "gas_pump", "golf_ball", "parachute">>
Root == <<"/", "home", "churilla", "nfs", "datasets", "imagenette">>
LabelDirOf(split, label) == Root \o <<split, LabelNames[label + 1]>>
AllLabelDirs == {LabelDirOf(sp, l) : sp \in {"train", "test"}, l \in 0..9}

HasJson(path) == path \in DOMAIN files /\ files[path].kind = "json"
TrainSpecOnDisk == files[<<Root, <<"imagenette_nXn_rgb_train_van.json">>>>].body[1]
TestSpecOnDisk == files[<<Root, <<"imagenette_nXn_rgb_test_van.json">>>>].body[1]
BothSpecsOnDisk ==
    /\ HasJson(<<Root, <<"imagenette_nXn_rgb_train_van.json">>>>)
    /\ HasJson(<<Root, <<"imagenette_nXn_rgb_test_van.json">>>>)
SpecOnDisk(split) == IF split = "train" THEN TrainSpecOnDisk ELSE TestSpecOnDisk

\* The examples of the run in the order the script meets them.
AllExamples == IF dataset = <<>> THEN <<>> ELSE dataset[1].train \o dataset[1].test
NTrain == IF dataset = <<>> THEN 0 ELSE Len(dataset[1].train)
SplitOfPosition(k) == IF k <= NTrain THEN "train" ELSE "test"

\* The records of the images the current run has saved, oldest first.
SavedIn(r) == SelectSeq(written, LAMBDA e : e.run = r)
ImagesIn(fs, dir) == {k \in PngKeys(fs) : k[1] = dir}

\* The number a sequence of decimal digit tokens denotes; -1 if one is no digit.
DigitValue(d) ==
    IF \E v \in 0..9 : Digit[v + 1] = d
    THEN CHOOSE v \in 0..9 : Digit[v + 1] = d
    ELSE -1
RECURSIVE NumberOf(_)
NumberOf(ds) ==
    IF ds = <<>> THEN 0
    ELSE LET high == NumberOf(SubSeq(ds, 1, Len(ds) - 1))
             low == DigitValue(ds[Len(ds)])
         IN  IF low < 0 \/ high < 0 THEN -1 ELSE 10 * high + low
DigitsOfName(name) == SubSeq(name, 1, Len(name) - 1)

-----------------------------------------------------------------------------
(* C1: every image of an example with a label in 0..9 is saved in
   root/{the split being iterated}/{the name of its label}/, which is the
   directory the same split's spec document lists for that label (resolved
   against the destination root); no image lies in a directory of the other
   split or of another label. *)
C1_ImageInItsLabelDirectory ==
    /\ \A k \in DOMAIN written :
          LET e == written[k]
              l == e.example.label
          IN  l \in 0..9 =>
                /\ e.example = AllExamples[k]
                /\ e.split = SplitOfPosition(k)
                /\ e.dir = LabelDirOf(e.split, l)
                /\ <<e.dir, e.name>> \in PngKeys(files)
                /\ BothSpecsOnDisk
                /\ \E pos \in DOMAIN SpecOnDisk(e.split).data :
                      /\ SpecOnDisk(e.split).data[pos].label = l
                      /\ <<"/", "home", "churilla", "nfs", "datasets">>
                            \o SpecOnDisk(e.split).data[pos].directory = e.dir
                /\ \A pos \in DOMAIN SpecOnDisk(e.split).data :
                      SpecOnDisk(e.split).data[pos].label = l
                         => <<"/", "home", "churilla", "nfs", "datasets">>
                               \o SpecOnDisk(e.split).data[pos].directory = e.dir
    /\ \A key \in PngKeys(files) :
          \E k \in DOMAIN written : key = <<written[k].dir, written[k].name>>
    /\ \A sp \in {"train", "test"}, l \in 0..9 :
          Cardinality(ImagesIn(files, LabelDirOf(sp, l)))
             = Cardinality({k \in DOMAIN written :
                              written[k].split = sp /\ written[k].example.label = l})

C1_Witness ==
    /\ Running("done")
    /\ \E i, j \in DOMAIN written :
          /\ written[i].split = "train"
          /\ written[j].split = "test"
          /\ written[i].example.label = 9
          /\ written[j].example.label = 0

-----------------------------------------------------------------------------
NameOfCounter(name, c) ==
    /\ Len(name) >= 2
    /\ name[Len(name)] = ".png"
    /\ NumberOf(DigitsOfName(name)) = c
    /\ Len(DigitsOfName(name)) >= 6
    /\ c < 1000000 => Len(DigitsOfName(name)) = 6
    /\ Len(DigitsOfName(name)) > 6 => name[1] # "0"

NoSharedName ==
    /\ \A i, j \in DOMAIN written : written[i].name = written[j].name => i = j
    /\ \A a, b \in PngKeys(files) : a[2] = b[2] => a = b
    /\ Cardinality(PngKeys(files)) = Len(written)

(* C2, as amended: every image file written has as its name the counter in
   decimal, filled with zeros on the left to at least 6 digits (exactly 6
   while the counter is below 1,000,000, and as many as the number has from
   there on), followed by ".png"; and no two files written in the run share a
   name. *)
C2_PaddedToAtLeastSixDigitsAndUnique ==
    /\ \A k \in DOMAIN written : NameOfCounter(written[k].name, written[k].cnt)
    /\ \A key \in PngKeys(files) :
          \E k \in DOMAIN written : key = <<written[k].dir, written[k].name>>
    /\ NoSharedName

\* Images named on both sides of 1,000,000, of both splits.
C2_Witness ==
    /\ Running("done")
    /\ \E i, j \in DOMAIN written :
          /\ written[i].split = "train" /\ Len(written[i].name) = 7
          /\ written[j].split = "test" /\ Len(written[j].name) = 8

(* C2 as stated: every file name is exactly 6 digits and ".png", and no two
   files share a name. *)
C2_AlwaysSixDigits ==
    /\ \A k \in DOMAIN written :
          /\ Len(written[k].name) = 7
          /\ written[k].name[7] = ".png"
          /\ NumberOf(DigitsOfName(written[k].name)) = written[k].cnt
    /\ NoSharedName

-----------------------------------------------------------------------------
(* C3: one counter for the whole run: it starts at 0, grows by exactly 1 per
   image written, is not reset between the train loop and the test loop, so
   the k-th example overall (train then test, from 0) is written under
   counter k, and every test image's counter exceeds every train image's. *)
C3_OneCounterForTheRun ==
    /\ pc \in {"train_loop", "test_loop", "done"} => cnt = Len(written)
    /\ pc \in {"not_started", "makedirs", "build_specs", "write_train_spec",
               "write_test_spec", "load"} => cnt = 0 /\ written = <<>>
    /\ \A k \in DOMAIN written :
          /\ written[k].cnt = k - 1
          /\ written[k].example = AllExamples[k]
          /\ written[k].split = SplitOfPosition(k)
          /\ NumberOf(DigitsOfName(written[k].name)) = k - 1
    /\ \A i, j \in DOMAIN written :
          written[i].split = "train" /\ written[j].split = "test"
             => written[i].cnt < written[j].cnt
    /\ pc = "done" => Len(written) = Len(AllExamples)

C3_Witness ==
    /\ Running("done")
    /\ Len(written) = 5
    /\ written[3].split = "train"
    /\ written[4].split = "test"
    /\ written[4].cnt = 3

-----------------------------------------------------------------------------
(* C4: from a disk where any of the target directories exist already, the
   directory-tree builder raises nothing on account of them and ends with
   root, root/train, root/test and the 10 label directories of each split
   existing; run again on its own result it changes nothing. *)
C4_BuilderIsIdempotent ==
    /\ err # "FileExistsError"
    /\ pc = "makedirs" /\ err # "none" => err = "OSError"
    /\ pc = "build_specs" =>
          /\ {Root, Root \o <<"train">>, Root \o <<"test">>} \subseteq dirs
          /\ AllLabelDirs \subseteq dirs
          /\ Cardinality(AllLabelDirs) = 20
          /\ dirs = pre_dirs \cup TargetDirs
          /\ RunMkdirs(dirs, Len(MkdirCalls)) = [dirs |-> dirs, err |-> "none"]
          /\ \A n \in DOMAIN MkdirCalls :
                makedirs(dirs, MkdirCalls[n], TRUE) = [dirs |-> dirs, err |-> "none"]

\* The builder has completed on a disk that held one split's label directory
\* and not the other's.
C4_Witness ==
    /\ pc = "build_specs"
    /\ LabelDirOf("train", 0) \in pre_dirs
    /\ LabelDirOf("test", 0) \notin pre_dirs
    /\ Root \o <<"test">> \notin pre_dirs

-----------------------------------------------------------------------------
WellFormedSpecDocument(doc) ==
    /\ doc.numModelClasses = 10
    /\ Len(doc.data) = 10
    /\ \A i \in 0..9 :
          /\ doc.data[i + 1].label = i
          /\ doc.data[i + 1].labelName = LabelNames[i + 1]
    /\ doc.data[1].label = 0
    /\ doc.data[1].labelName = "tench"

(* C5: each spec document's data array has exactly 10 entries, the entry at
   position i (from 0) having label i and the i-th label name (index 0 is
   "tench"), and numModelClasses is 10 in both documents. *)
C5_SpecDocumentsListTheTenLabels ==
    /\ train_spec # <<>> => WellFormedSpecDocument(train_spec[1])
    /\ test_spec # <<>> => WellFormedSpecDocument(test_spec[1])
    /\ HasJson(<<Root, <<"imagenette_nXn_rgb_train_van.json">>>>)
          => WellFormedSpecDocument(TrainSpecOnDisk) /\ TrainSpecOnDisk = train_spec[1]
    /\ HasJson(<<Root, <<"imagenette_nXn_rgb_test_van.json">>>>)
          => WellFormedSpecDocument(TestSpecOnDisk) /\ TestSpecOnDisk = test_spec[1]
    /\ pc \in {"load", "train_loop", "test_loop", "done"} => BothSpecsOnDisk

C5_Witness ==
    /\ Running("load")
    /\ BothSpecsOnDisk
    /\ TestSpecOnDisk.timestamp > TrainSpecOnDisk.timestamp

-----------------------------------------------------------------------------
Labels(examples) == [k \in DOMAIN examples |-> examples[k].label]
Scenario ==
    /\ dataset # <<>>
    /\ Labels(dataset[1].train) = <<0, 0, 1>>
    /\ Labels(dataset[1].test) = <<2, 9>>
    /\ Running("done")

(* C7: from a destination with no prior data, a full run over train examples
   labelled 0, 0, 1 and test examples labelled 2, 9 ends with 2 PNGs in
   train/tench, 1 in train/English_springer, 1 in test/cassette_player, 1 in
   test/parachute, none in any other label directory, and both spec files
   present with numModelClasses 10. *)
C7_EndToEnd ==
    Scenario =>
       /\ Cardinality(ImagesIn(files, Root \o <<"train", "tench">>)) = 2
       /\ Cardinality(ImagesIn(files, Root \o <<"train", "English_springer">>)) = 1
       /\ Cardinality(ImagesIn(files, Root \o <<"test", "cassette_player">>)) = 1
       /\ Cardinality(ImagesIn(files, Root \o <<"test", "parachute">>)) = 1
       /\ Cardinality(PngKeys(files)) = 5
       /\ \A key \in PngKeys(files) : key[1] \in AllLabelDirs /\ key[1] \in dirs
       /\ BothSpecsOnDisk
       /\ TrainSpecOnDisk.numModelClasses = 10
       /\ TestSpecOnDisk.numModelClasses = 10

C7_Witness == Scenario

-----------------------------------------------------------------------------
Stage(at) ==
    CASE at = "not_started" -> 0
      [] at = "makedirs" -> 1
      [] at \in {"build_specs", "write_train_spec", "write_test_spec"} -> 2
      [] at \in {"load", "train_loop"} -> 3
      [] at = "test_loop" -> 4
      [] at = "done" -> 5

TrainImages(fs) == {k \in PngKeys(fs) : k[1] \in {LabelDirOf("train", l) : l \in 0..9}}
TestImages(fs) == {k \in PngKeys(fs) : k[1] \in {LabelDirOf("test", l) : l \in 0..9}}
JsonKeys(fs) == (DOMAIN fs) \ PngKeys(fs)
SameOn(keys, f, g) == \A k \in keys : k \in DOMAIN f /\ k \in DOMAIN g /\ f[k] = g[k]

StageStep ==
    /\ Stage(pc') \in {Stage(pc), Stage(pc) + 1}
    /\ err = "none"
    /\ err' # "none" => pc' = pc
    /\ dirs' # dirs => Stage(pc) = 1
    /\ (JsonKeys(files') # JsonKeys(files) \/ ~SameOn(JsonKeys(files), files, files'))
          => Stage(pc) = 2 /\ AllLabelDirs \subseteq dirs
    /\ (TrainImages(files') # TrainImages(files) \/ ~SameOn(TrainImages(files), files, files'))
          => Stage(pc) = 3 /\ BothSpecsOnDisk
    /\ (TestImages(files') # TestImages(files) \/ ~SameOn(TestImages(files), files, files'))
          => Stage(pc) = 4 /\ BothSpecsOnDisk /\ train_set = <<>>
    /\ PngKeys(files') = TrainImages(files') \cup TestImages(files')

(* C8: the run passes through its stages in the one order not started,
   building directories, writing the spec files, writing train images,
   writing test images, done: no spec file is written before every directory
   exists, no image before both spec files are written, no test image before
   the last train image, and an uncaught error halts the run in its stage: no
   action of a later stage is performed. *)
C8_StagesInOrder == [][StageStep]_vars

C8_Witness ==
    /\ pc = "test_loop"
    /\ err = "ImageError"
    /\ TrainImages(files) # {}
    /\ TestImages(files) # {}

-----------------------------------------------------------------------------
ExpectedImage(k) ==
    [key |-> <<LabelDirOf(SplitOfPosition(k), AllExamples[k].label), written[k].name>>,
     content |-> [kind |-> "png", body |-> <<AllExamples[k].image>>]]

AbortedAtExample == pc \in {"train_loop", "test_loop"} /\ err # "none"

(* C9: if decoding or saving the image of the n-th example fails, the run
   aborts there: exactly the images of the examples before it are on disk,
   unchanged, under the names and directories they were given, the
   directories and both spec files are in place, and no image of that or any
   later example is written. *)
C9_AbortLeavesEarlierImagesInPlace ==
    AbortedAtExample =>
       LET before == Len(written)
       IN  /\ before < Len(AllExamples)
           /\ before + Len(train_set) + Len(test_set) = Len(AllExamples)
           /\ pc = "train_loop" <=> before < NTrain
           /\ PngKeys(files) = {ExpectedImage(k).key : k \in 1..before}
           /\ \A k \in 1..before :
                 /\ files[ExpectedImage(k).key] = ExpectedImage(k).content
                 /\ NumberOf(DigitsOfName(written[k].name)) = k - 1
           /\ Cardinality(PngKeys(files)) = before
           /\ AllLabelDirs \subseteq dirs
           /\ BothSpecsOnDisk
           /\ TrainSpecOnDisk = train_spec[1]
           /\ TestSpecOnDisk = test_spec[1]

C9_Witness ==
    /\ AbortedAtExample
    /\ pc = "test_loop"
    /\ Len(written) = 4
    /\ Len(AllExamples) = 5

-----------------------------------------------------------------------------
ImagePairs(fs) == {<<k[1], fs[k]>> : k \in PngKeys(fs)}

BothRunsCompleted == run = 2 /\ first_halt = "none" /\ Running("done")

(* C6: determinism: with the same train and test example sequences, two
   separate runs that each start from an empty destination leave the same set
   of (label directory, file content) pairs. *)
C6_SamePairsFromBothRuns ==
    /\ run = 2 /\ first_halt = "none" => pre_dirs = {<<"/">>}
    /\ BothRunsCompleted =>
          /\ ImagePairs(files) = ImagePairs(first_files)
          /\ \A k \in DOMAIN AllExamples :
                <<LabelDirOf(SplitOfPosition(k), AllExamples[k].label),
                  [kind |-> "png", body |-> <<AllExamples[k].image>>]>> \in ImagePairs(files)
          /\ Len(SavedIn(1)) = Len(AllExamples)
          /\ Len(SavedIn(2)) = Len(AllExamples)

C6_Witness ==
    /\ BothRunsCompleted
    /\ Cardinality(ImagePairs(first_files)) = 3
    /\ TrainSpecOnDisk.timestamp > 0

-----------------------------------------------------------------------------
RerunAfterFailed == run = 2 /\ first_halt # "none"

RerunKeepsDirectories ==
    /\ err # "FileExistsError"
    /\ pc = "makedirs" /\ err # "none" => err = "OSError"
    /\ pre_dirs \subseteq dirs
    /\ Stage(pc) >= 2 => AllLabelDirs \subseteq dirs

NewerThanFirst(key) ==
    key \in DOMAIN first_files /\ first_files[key].kind = "json"
       => files[key].body[1].timestamp > first_files[key].body[1].timestamp

RerunOverwritesSpecFiles ==
    Stage(pc) >= 3 =>
       /\ BothSpecsOnDisk
       /\ TrainSpecOnDisk = train_spec[1]
       /\ TestSpecOnDisk = test_spec[1]
       /\ NewerThanFirst(<<Root, <<"imagenette_nXn_rgb_train_van.json">>>>)
       /\ NewerThanFirst(<<Root, <<"imagenette_nXn_rgb_test_van.json">>>>)

RerunCountsFromZero ==
    LET again == SavedIn(2)
    IN  /\ pc \in {"train_loop", "test_loop", "done"} => cnt = Len(again)
        /\ \A k \in DOMAIN again :
              /\ again[k].cnt = k - 1
              /\ again[k].example = AllExamples[k]
        /\ Running("done") => Len(again) = Len(AllExamples)

RerunReplacesInPlace ==
    LET first == SavedIn(1)
        again == SavedIn(2)
    IN  /\ \A k \in DOMAIN again :
              k \in DOMAIN first =>
                 /\ again[k].dir = first[k].dir
                 /\ again[k].name = first[k].name
                 /\ files[<<again[k].dir, again[k].name>>]
                       = first_files[<<first[k].dir, first[k].name>>]
        /\ PngKeys(first_files) \subseteq PngKeys(files)
        /\ Cardinality(PngKeys(first_files)) = Len(first)
        /\ Cardinality(PngKeys(files))
              = IF Len(again) > Len(first) THEN Len(again) ELSE Len(first)

(* C10, as amended: a rerun after a failed run re-creates the directories
   that exist already without error, overwrites the two JSON spec files, and
   materializes the images again with the counter starting at 0: every
   example is saved under the very name and directory it had in the failed
   run, replacing that file, so that no previously written file is duplicated
   under a new name and nothing is resumed from where the failed run
   stopped. *)
C10_RerunReplacesInPlace ==
    RerunAfterFailed =>
       /\ RerunKeepsDirectories
       /\ RerunOverwritesSpecFiles
       /\ RerunCountsFromZero
       /\ RerunReplacesInPlace

\* A rerun has completed after a run that failed with images on disk.
RerunCompletedOverImages ==
    /\ RerunAfterFailed
    /\ Running("done")
    /\ PngKeys(first_files) # {}

C10_Witness ==
    /\ RerunCompletedOverImages
    /\ first_halt = "test_loop"
    /\ Len(SavedIn(1)) = 2
    /\ Len(SavedIn(2)) = 3

(* C10 as stated: the rerun re-creates the directories, overwrites the spec
   files, counts from 0 again, and so leaves the files the failed run had
   written duplicated under new names. *)
C10_RerunDuplicatesUnderNewNames ==
    RerunAfterFailed =>
       /\ RerunKeepsDirectories
       /\ RerunOverwritesSpecFiles
       /\ RerunCountsFromZero
       /\ RerunCompletedOverImages =>
             LET first == SavedIn(1)
                 again == SavedIn(2)
             IN  \E k \in DOMAIN first :
                    /\ again[k].example = first[k].example
                    /\ <<again[k].dir, again[k].name>> # <<first[k].dir, first[k].name>>

====
